---- MODULE Spec2Model ----
(***************************************************************************)
(* The "productos" CRUD backend: four Express route handlers, each one     *)
(* parameterised SQL statement against the table productos.  Two variants  *)
(* of the server exist: variant A (src/unnamed/part_000: columns nombre,   *)
(* descripcion, precio, stock) and variant B (src/server.js: columns       *)
(* nombre, tipo_producto, costo_venta, cantidad_disponible, proveedor_id,  *)
(* material).                                                              *)
(*                                                                         *)
(* JSON values are written as their JSON text ("null", "0", "150",         *)
(* "\"\"", "\"Anillo\""); Undef stands for a key the request body does    *)
(* not carry (JavaScript undefined after destructuring).                   *)
(***************************************************************************)
EXTENDS Integers, Sequences, FiniteSets, TLC

VARIABLES
    variant,    \* which server runs: "A" or "B"
    table,      \* the rows of productos: a set of [id, f]
    nextId,     \* the next value of the id sequence of productos
    alive,      \* the process is up (no failure has escaped a handler)
    req,        \* the request handled last: [op, id, body, dbFails]
    sent,       \* the responses the handler sent for it, in order
    calls,      \* the datastore calls the handler issued for it
    prev,       \* the table before that request
    watch,      \* history: the first create answered 201, [id, body], and
                \* whether an update or a delete of its id has succeeded since
    deleted,    \* history: ids a successful delete was answered for
    flight,     \* concurrent requests: slot -> request record
    clock       \* number of datastore statements executed for flight

vars == <<variant, table, nextId, alive, req, sent, calls, prev,
          watch, deleted, flight, clock>>

\* ------------------------------------------------------------------ bounds
MaxId == 2      \* ids the sequence hands out (creates answered 201)
MaxReq == 2     \* concurrent requests issued in one behaviour

\* ------------------------------------------------------------------ values
Undef == "undefined"
Null == "null"

ColsA == {"nombre", "descripcion", "precio", "stock"}
ColsB == {"nombre", "tipo_producto", "costo_venta", "cantidad_disponible",
          "proveedor_id", "material"}
Cols(v) == IF v = "A" THEN ColsA ELSE ColsB

\* The columns the UPDATE statement of each variant sets.
SetColsA == {"nombre", "descripcion", "precio", "stock"}
\* Faulty variant: the UPDATE of variant B forgets cantidad_disponible.
SetColsB_Short == {"nombre", "costo_venta"}

SetColsB == {"nombre", "costo_venta", "cantidad_disponible"}
SetCols(v) == IF v = "A" THEN SetColsA ELSE SetColsB

\* JavaScript's !x: undefined, null, the empty string, 0 and false.
Falsy(x) == x \in {Undef, Null, "\"\"", "0", "false"}

\* node-postgres sends an undefined parameter as NULL.
ToParam(x) == IF x = Undef THEN Null ELSE x

\* ------------------------------------------------------------ request bodies
BodyA(n, d, p, s) ==
    [c \in ColsA |-> CASE c = "nombre" -> n
                       [] c = "descripcion" -> d
                       [] c = "precio" -> p
                       [] OTHER -> s]

BodyB(n, t, cv, q, pr, m) ==
    [c \in ColsB |-> CASE c = "nombre" -> n
                       [] c = "tipo_producto" -> t
                       [] c = "costo_venta" -> cv
                       [] c = "cantidad_disponible" -> q
                       [] c = "proveedor_id" -> pr
                       [] OTHER -> m]

\* The bodies the create requests carry.
CreateBodiesA ==
    { BodyA("\"Anillo\"", "\"de oro\"", "150", "5"),
      BodyA("\"Collar\"", Undef, "200", Undef),
      BodyA(Undef, Undef, Undef, Undef) }

CreateBodiesB ==
    { BodyB("\"Anillo\"", "\"anillo\"", "150", "5", "1", "\"oro\""),
      BodyB("\"Collar\"", Undef, "200", Undef, Undef, Undef),
      BodyB("\"\"", Undef, "150", "5", Undef, Undef),
      BodyB(Null, Undef, "150", "5", Undef, Undef),
      BodyB(Undef, Undef, "150", "5", Undef, Undef),
      BodyB("\"Anillo\"", Undef, "0", "5", Undef, Undef),
      BodyB("\"Anillo\"", Undef, Null, "5", Undef, Undef),
      BodyB("\"Anillo\"", Undef, Undef, "5", Undef, Undef) }

CreateBodies(v) == IF v = "A" THEN CreateBodiesA ELSE CreateBodiesB

\* The bodies the update requests carry.
UpdateBodiesA ==
    { BodyA("\"Collar\"", "\"de plata\"", "200", "7"),
      BodyA("\"\"", Null, "0", Undef) }

UpdateBodiesB ==
    { BodyB("\"Collar\"", "\"collar\"", "200", "7", "2", "\"plata\""),
      BodyB("\"\"", Undef, "150", Undef, Undef, Undef) }

UpdateBodies(v) == IF v = "A" THEN UpdateBodiesA ELSE UpdateBodiesB

NoBody(v) == [c \in Cols(v) |-> Undef]

\* The ids the requests name in their path.
Ids == 1..MaxId

\* ---------------------------------------------------------------- responses
Response(status, kind, rows, ident) ==
    [status |-> status, kind |-> kind, rows |-> rows, ident |-> ident]

ErrorBody(status) == Response(status, "error", <<>>, 0)

\* ---------------------------------------------------------------- datastore
MinId(S) == CHOOSE i \in S : \A j \in S : i <= j
MaxIdOf(S) == CHOOSE i \in S : \A j \in S : i >= j

RECURSIVE OrderAsc(_)
OrderAsc(rows) ==
    IF rows = {} THEN <<>>
    ELSE LET r == CHOOSE x \in rows : x.id = MinId({y.id : y \in rows})
         IN  <<r>> \o OrderAsc(rows \ {r})

RECURSIVE OrderDesc(_)
OrderDesc(rows) ==
    IF rows = {} THEN <<>>
    ELSE LET r == CHOOSE x \in rows : x.id = MaxIdOf({y.id : y \in rows})
         IN  <<r>> \o OrderDesc(rows \ {r})

\* What pool.query resolves to; ok = FALSE is a rejected promise (a throw
\* at the await).
Result(ok, rows, rowCount) == [ok |-> ok, rows |-> rows, rowCount |-> rowCount]

Failure == Result(FALSE, <<>>, 0)

\* A statement's effect on the datastore and what it resolves to.
Effect(t, nid, result) == [table |-> t, nextId |-> nid, result |-> result]

\* Faulty variant: the SELECT orders by ascending id whatever the handler asks.
QuerySelect_Asc(t, nid, dir) ==
    Effect(t, nid, Result(TRUE, OrderAsc(t), Cardinality(t)))

\* SELECT * FROM productos ORDER BY id ASC | DESC
QuerySelect(t, nid, dir) ==
    Effect(t, nid,
           Result(TRUE, IF dir = "ASC" THEN OrderAsc(t) ELSE OrderDesc(t),
                  Cardinality(t)))

\* Faulty variant: the INSERT leaves nombre out of its column list.
QueryInsert_NoNombre(t, nid, cols, body) ==
    LET row == [id |-> nid,
                f |-> [c \in cols |->
                         IF c = "nombre" THEN Null ELSE ToParam(body[c])]]
    IN  Effect(t \cup {row}, nid + 1, Result(TRUE, <<row>>, 1))

\* INSERT INTO productos (cols) VALUES (...) RETURNING *
QueryInsert(t, nid, cols, body) ==
    LET row == [id |-> nid, f |-> [c \in cols |-> ToParam(body[c])]]
    IN  Effect(t \cup {row}, nid + 1, Result(TRUE, <<row>>, 1))

\* Faulty variant: the UPDATE has no WHERE clause.
QueryUpdate_NoWhere(t, nid, setCols, id, body) ==
    LET new(r) == [id |-> r.id,
                   f |-> [c \in DOMAIN r.f |->
                            IF c \in setCols THEN ToParam(body[c]) ELSE r.f[c]]]
        out == {new(r) : r \in t}
    IN  Effect(out, nid, Result(TRUE, OrderAsc(out), Cardinality(t)))

\* UPDATE productos SET setCols WHERE id = $n RETURNING *
QueryUpdate(t, nid, setCols, id, body) ==
    LET hit == {r \in t : r.id = id}
        new(r) == [id |-> r.id,
                   f |-> [c \in DOMAIN r.f |->
                            IF c \in setCols THEN ToParam(body[c]) ELSE r.f[c]]]
        out == {new(r) : r \in hit}
    IN  Effect((t \ hit) \cup out, nid,
               Result(TRUE, OrderAsc(out), Cardinality(hit)))

\* DELETE FROM productos WHERE id = $1 [RETURNING *]
QueryDelete(t, nid, id, returning) ==
    LET hit == {r \in t : r.id = id}
    IN  Effect(t \ hit, nid,
               Result(TRUE, IF returning THEN OrderAsc(hit) ELSE <<>>,
                      Cardinality(hit)))

\* The statement each handler hands to pool.query.
Statement(v, op, t, nid, id, body) ==
    CASE op = "get" ->
           QuerySelect(t, nid, IF v = "A" THEN "ASC" ELSE "DESC")
      [] op = "post" -> QueryInsert(t, nid, Cols(v), body)
      [] op = "put" -> QueryUpdate(t, nid, SetCols(v), id, body)
      [] OTHER -> QueryDelete(t, nid, id, v = "B")

\* pool.query: the statement runs as one step, or the call fails and the
\* datastore is left as it was.
PoolQuery(v, op, t, nid, id, body, dbFails) ==
    IF dbFails THEN Effect(t, nid, Failure)
    ELSE Statement(v, op, t, nid, id, body)

\* ----------------------------------------------------------------- handlers
\* What a handler does with the outcome of its await: the responses it sends
\* in order, and whether an exception escaped it.
Reply(sends, escaped) == [sent |-> sends, escaped |-> escaped]

\* --- variant A (src/unnamed/part_000)
\* Faulty variant: the list handler has no try/catch.
GetReplyA_NoCatch(result) ==
    IF ~result.ok THEN Reply(<<>>, TRUE)
    ELSE Reply(<<Response(200, "rows", result.rows, 0)>>, FALSE)

GetReplyA(result) ==
    IF ~result.ok THEN Reply(<<ErrorBody(500)>>, FALSE)
    ELSE Reply(<<Response(200, "rows", result.rows, 0)>>, FALSE)

PostReplyA(result) ==
    IF ~result.ok THEN Reply(<<ErrorBody(500)>>, FALSE)
    ELSE Reply(<<Response(201, "row", <<result.rows[1]>>, 0)>>, FALSE)

PutReplyA(result) ==
    IF ~result.ok THEN Reply(<<ErrorBody(500)>>, FALSE)
    ELSE IF Len(result.rows) = 0 THEN Reply(<<ErrorBody(404)>>, FALSE)
    ELSE Reply(<<Response(200, "row", <<result.rows[1]>>, 0)>>, FALSE)

\* Faulty variant: the delete handler does not look at rowCount.
DeleteReplyA_NoCheck(result) ==
    IF ~result.ok THEN Reply(<<ErrorBody(500)>>, FALSE)
    ELSE Reply(<<Response(204, "empty", <<>>, 0)>>, FALSE)

DeleteReplyA(result) ==
    IF ~result.ok THEN Reply(<<ErrorBody(500)>>, FALSE)
    ELSE IF result.rowCount = 0 THEN Reply(<<ErrorBody(404)>>, FALSE)
    ELSE Reply(<<Response(204, "empty", <<>>, 0)>>, FALSE)

\* --- variant B (src/server.js)
GetReplyB(result) ==
    IF ~result.ok THEN Reply(<<ErrorBody(500)>>, FALSE)
    ELSE Reply(<<Response(200, "rows", result.rows, 0)>>, FALSE)

\* if (!nombre || !costo_venta) return res.status(400)...
PostRejectsB(body) == Falsy(body["nombre"]) \/ Falsy(body["costo_venta"])

PostReplyB(result) ==
    IF ~result.ok THEN Reply(<<ErrorBody(500)>>, FALSE)
    ELSE Reply(<<Response(201, "row", <<result.rows[1]>>, 0)>>, FALSE)

\* Faulty variant: the update handler does not look at rowCount.
PutReplyB_NoCheck(result) ==
    IF ~result.ok THEN Reply(<<ErrorBody(500)>>, FALSE)
    ELSE Reply(<<Response(200, "row", result.rows, 0)>>, FALSE)

PutReplyB(result) ==
    IF ~result.ok THEN Reply(<<ErrorBody(500)>>, FALSE)
    ELSE IF result.rowCount = 0 THEN Reply(<<ErrorBody(404)>>, FALSE)
    ELSE Reply(<<Response(200, "row", <<result.rows[1]>>, 0)>>, FALSE)

DeleteReplyB(result) ==
    IF ~result.ok THEN Reply(<<ErrorBody(500)>>, FALSE)
    ELSE IF result.rowCount = 0 THEN Reply(<<ErrorBody(404)>>, FALSE)
    ELSE Reply(<<Response(200, "deleted", <<>>, result.rows[1].id)>>, FALSE)

\* Route dispatch: the code that runs before the await ...
Rejects(v, op, body) == v = "B" /\ op = "post" /\ PostRejectsB(body)

\* ... and after it.
Resume(v, op, result) ==
    CASE v = "A" /\ op = "get" -> GetReplyA(result)
      [] v = "A" /\ op = "post" -> PostReplyA(result)
      [] v = "A" /\ op = "put" -> PutReplyA(result)
      [] v = "A" /\ op = "delete" -> DeleteReplyA(result)
      [] v = "B" /\ op = "get" -> GetReplyB(result)
      [] v = "B" /\ op = "post" -> PostReplyB(result)
      [] v = "B" /\ op = "put" -> PutReplyB(result)
      [] OTHER -> DeleteReplyB(result)

\* One request handled from start to end with no other request in between.
Outcome(t, nid, sends, ncalls, escaped) ==
    [table |-> t, nextId |-> nid, sent |-> sends, calls |-> ncalls,
     escaped |-> escaped]

Handle(v, op, t, nid, id, body, dbFails) ==
    IF Rejects(v, op, body)
    THEN Outcome(t, nid, <<ErrorBody(400)>>, 0, FALSE)
    ELSE LET e == PoolQuery(v, op, t, nid, id, body, dbFails)
             r == Resume(v, op, e.result)
         IN  Outcome(e.table, e.nextId, r.sent, 1, r.escaped)

\* ------------------------------------------------------------------ history
HasRow(t, id) == \E r \in t : r.id = id

Answered(sends, status) == Len(sends) >= 1 /\ sends[1].status = status

Succeeded(op, sends) ==
    Len(sends) >= 1 /\ sends[1].status \in {200, 201, 204}

Request(op, id, body, dbFails) ==
    [op |-> op, id |-> id, body |-> body, dbFails |-> dbFails]

\* --------------------------------------------------------------------- init
NoRequest(v) == Request("none", 0, NoBody(v), FALSE)

NoWatch(v) == [id |-> 0, body |-> NoBody(v), updated |-> FALSE,
               deleted |-> FALSE]

\* A slot of flight: the request, how far its handler has got (idle: not
\* arrived; waiting: at its await; resolved: pool.query has settled; done:
\* answered), what pool.query settled with, the responses sent, and for the
\* history the position of its statement among the statements executed and
\* whether its id matched a row then.
Slot(st, op, id, body, result, sends, at, found) ==
    [st |-> st, op |-> op, id |-> id, body |-> body, result |-> result,
     sent |-> sends, at |-> at, found |-> found]

Idle(v) == Slot("idle", "none", 0, NoBody(v), Failure, <<>>, 0, FALSE)

Init ==
    /\ variant \in {"A", "B"}
    /\ table = {}
    /\ nextId = 1
    /\ alive = TRUE
    /\ req = NoRequest(variant)
    /\ sent = <<>>
    /\ calls = 0
    /\ prev = {}
    /\ watch = NoWatch(variant)
    /\ deleted = {}
    /\ flight = [s \in 1..MaxReq |-> Idle(variant)]
    /\ clock = 0

\* ------------------------------------------------- requests, one at a time
Serve(op, id, body, dbFails) ==
    LET o == Handle(variant, op, table, nextId, id, body, dbFails)
        ok == Succeeded(op, o.sent)
    IN  /\ alive
        /\ table' = o.table
        /\ nextId' = o.nextId
        /\ alive' = ~o.escaped
        /\ req' = Request(op, id, body, dbFails /\ o.calls > 0)
        /\ sent' = o.sent
        /\ calls' = o.calls
        /\ prev' = table
        /\ watch' =
             IF op = "post" /\ ok /\ watch.id = 0
             THEN [id |-> o.sent[1].rows[1].id, body |-> body,
                   updated |-> FALSE, deleted |-> FALSE]
             ELSE IF op = "put" /\ ok /\ id = watch.id
             THEN [watch EXCEPT !.updated = TRUE]
             ELSE IF op = "delete" /\ ok /\ id = watch.id
             THEN [watch EXCEPT !.deleted = TRUE]
             ELSE watch
        /\ deleted' = IF op = "delete" /\ ok THEN deleted \cup {id}
                      ELSE deleted
        /\ UNCHANGED <<variant, flight, clock>>

List ==
    \E dbFails \in BOOLEAN :
       Serve("get", 0, NoBody(variant), dbFails)

Create ==
    /\ nextId <= MaxId
    /\ \E body \in CreateBodies(variant), dbFails \in BOOLEAN :
          Serve("post", 0, body, dbFails)

Update ==
    \E id \in Ids, body \in UpdateBodies(variant), dbFails \in BOOLEAN :
       Serve("put", id, body, dbFails)

Delete ==
    \E id \in Ids, dbFails \in BOOLEAN :
       Serve("delete", id, NoBody(variant), dbFails)

Next == List \/ Create \/ Update \/ Delete

Spec == Init /\ [][Next]_vars

\* ------------------------------------------------ requests, interleaved
\* What the concurrent requests carry.
FlightBodies(v, op) ==
    CASE op = "post" /\ v = "A" ->
           {BodyA("\"Anillo\"", "\"de oro\"", "150", "5")}
      [] op = "post" /\ v = "B" ->
           {BodyB("\"Anillo\"", "\"anillo\"", "150", "5", "1", "\"oro\""),
            BodyB("\"Anillo\"", Undef, Undef, "5", Undef, Undef)}
      [] op = "put" /\ v = "A" ->
           {BodyA("\"Collar\"", "\"de plata\"", "200", "7")}
      [] op = "put" /\ v = "B" ->
           {BodyB("\"Collar\"", "\"collar\"", "200", "7", "2", "\"plata\"")}
      [] OTHER -> {NoBody(v)}

FlightIds(op) == IF op \in {"put", "delete"} THEN {1, 2} ELSE {0}

\* A request arrives and its handler runs up to its await: variant B's
\* create answers 400 there and ends, every other handler has called
\* pool.query and waits.
Arrive(s) ==
    /\ alive
    /\ flight[s].st = "idle"
    /\ \A k \in 1..(s - 1) : flight[k].st # "idle"
    /\ \E op \in {"get", "post", "put", "delete"} :
       \E id \in FlightIds(op), body \in FlightBodies(variant, op) :
          flight' = [flight EXCEPT ![s] =
             IF Rejects(variant, op, body)
             THEN Slot("done", op, id, body, Failure, <<ErrorBody(400)>>,
                       0, FALSE)
             ELSE Slot("waiting", op, id, body, Failure, <<>>, 0, FALSE)]
    /\ UNCHANGED <<variant, table, nextId, alive, req, sent, calls, prev,
                   watch, deleted, clock>>

\* The datastore executes the statement of a waiting handler, or the call
\* fails; the promise settles.
Execute(s) ==
    /\ flight[s].st = "waiting"
    /\ \E dbFails \in BOOLEAN :
          LET f == flight[s]
              e == PoolQuery(variant, f.op, table, nextId, f.id, f.body,
                             dbFails)
          IN  /\ table' = e.table
              /\ nextId' = e.nextId
              /\ clock' = clock + 1
              /\ flight' = [flight EXCEPT ![s] =
                    Slot("resolved", f.op, f.id, f.body, e.result, <<>>,
                         clock + 1, HasRow(table, f.id))]
    /\ UNCHANGED <<variant, alive, req, sent, calls, prev, watch, deleted>>

\* Faulty variant: the update handler answers from a second look at the table
\* instead of from what its statement returned.
Answer_Requery(s) ==
    /\ alive
    /\ flight[s].st = "resolved"
    /\ LET f == flight[s]
           now == {r \in table : r.id = f.id}
           seen == IF f.op = "put" /\ f.result.ok
                   THEN Result(TRUE, OrderAsc(now), Cardinality(now))
                   ELSE f.result
           r == Resume(variant, f.op, seen)
       IN  /\ flight' = [flight EXCEPT ![s] =
                 Slot("done", f.op, f.id, f.body, f.result, r.sent, f.at,
                      f.found)]
           /\ alive' = ~r.escaped
    /\ UNCHANGED <<variant, table, nextId, req, sent, calls, prev, watch,
                   deleted, clock>>

\* The handler resumes after its await and answers.
Answer(s) ==
    /\ alive
    /\ flight[s].st = "resolved"
    /\ LET f == flight[s]
           r == Resume(variant, f.op, f.result)
       IN  /\ flight' = [flight EXCEPT ![s] =
                 Slot("done", f.op, f.id, f.body, f.result, r.sent, f.at,
                      f.found)]
           /\ alive' = ~r.escaped
    /\ UNCHANGED <<variant, table, nextId, req, sent, calls, prev, watch,
                   deleted, clock>>

NextC == \E s \in 1..MaxReq : Arrive(s) \/ Execute(s) \/ Answer(s)

\* The interleaved requests meet a table that holds one product, created by
\* an earlier request.
SeedBody(v) ==
    IF v = "A" THEN BodyA("\"Dije\"", Undef, "90", "1")
    ELSE BodyB("\"Dije\"", Undef, "90", "1", Undef, Undef)

Seed(v) == Handle(v, "post", {}, 1, 0, SeedBody(v), FALSE)

InitC ==
    /\ variant \in {"A", "B"}
    /\ table = Seed(variant).table
    /\ nextId = Seed(variant).nextId
    /\ alive = TRUE
    /\ req = NoRequest(variant)
    /\ sent = <<>>
    /\ calls = 0
    /\ prev = {}
    /\ watch = NoWatch(variant)
    /\ deleted = {}
    /\ flight = [s \in 1..MaxReq |-> Idle(variant)]
    /\ clock = 0

SpecC == InitC /\ [][NextC]_vars

\* ----------------------------------------------------------- vocabulary
RowsOf(t, id) == {r \in t : r.id = id}

\* The row carries every value the body supplies.
Matches(row, body) ==
    \A c \in DOMAIN body : body[c] # Undef => row.f[c] = body[c]

\* What a list issued now, with the datastore answering, would return.
Listed(v, t) == Resume(v, "get", Statement(v, "get", t, 0, 0, NoBody(v)).result).sent[1].rows

InList(rows, row) == \E i \in 1..Len(rows) : rows[i] = row

\* A required field is absent, empty or null.
Missing(x) == x \in {Undef, Null, "\"\""}

\* ------------------------------------------------------------------- C1
\* C1: in variant B a create is answered 400 exactly when nombre or
\* costo_venta is absent, empty or null; a 400 comes with no datastore call
\* and an unchanged table; a body with a non-empty nombre and a non-null
\* costo_venta is never answered 400.
C1_Claim ==
    (variant = "B" /\ req.op = "post") =>
        /\ Answered(sent, 400) <=>
              (Missing(req.body["nombre"]) \/ Missing(req.body["costo_venta"]))
        /\ Answered(sent, 400) => (calls = 0 /\ table = prev)

\* ------------------------------------------------------------------- C2
\* C2: an update or a delete of an id that matches no row never succeeds,
\* inserts no row and leaves the table as it was; when its datastore call
\* completes it is answered 404 and nothing else (a failing datastore call
\* is answered 500, see C6).
C2_NotFound ==
    (req.op \in {"put", "delete"} /\ ~HasRow(prev, req.id)) =>
        /\ table = prev
        /\ Cardinality(table) = Cardinality(prev)
        /\ ~Succeeded(req.op, sent)
        /\ ~req.dbFails => sent = <<ErrorBody(404)>>

C2_Witness ==
    /\ req.op = "put"
    /\ ~req.dbFails
    /\ prev # {}
    /\ ~HasRow(prev, req.id)
    /\ sent = <<ErrorBody(404)>>

\* ------------------------------------------------------------------- C3
\* A create answered 201 returns the row it persisted: the row is in the
\* table, matches the body, and its id is new to the table and unique in it.
CreatedRowPersisted ==
    (req.op = "post" /\ Answered(sent, 201)) =>
        LET row == sent[1].rows[1]
        IN  /\ Len(sent) = 1 /\ Len(sent[1].rows) = 1
            /\ row \in table
            /\ Matches(row, req.body)
            /\ ~HasRow(prev, row.id)
            /\ Cardinality(RowsOf(table, row.id)) = 1

\* C3 as stated: a create answered 201 returns the persisted row under a
\* fresh id, and every later list contains a row with that id matching the
\* created body unless that id was deleted in between.
C3_Claim ==
    /\ CreatedRowPersisted
    /\ (req.op = "get" /\ Answered(sent, 200) /\ watch.id # 0
        /\ ~watch.deleted) =>
           \E i \in 1..Len(sent[1].rows) :
              /\ sent[1].rows[i].id = watch.id
              /\ Matches(sent[1].rows[i], watch.body)

\* C3 amended: ... unless that id was deleted or updated in between.
C3_Amended ==
    /\ CreatedRowPersisted
    /\ (req.op = "get" /\ Answered(sent, 200) /\ watch.id # 0
        /\ ~watch.deleted /\ ~watch.updated) =>
           \E i \in 1..Len(sent[1].rows) :
              /\ sent[1].rows[i].id = watch.id
              /\ Matches(sent[1].rows[i], watch.body)

C3_Witness ==
    /\ req.op = "get"
    /\ Answered(sent, 200)
    /\ watch.id = 1
    /\ ~watch.deleted /\ ~watch.updated
    /\ Len(sent[1].rows) = 2
    /\ sent[1].rows[1].id = 1

\* ------------------------------------------------------------------- C4
\* The update of an existing row, its datastore call completing, is
\* answered 200 with one row whose id is the path id and which is the row
\* a list now returns under that id.
UpdateAnswered(cols) ==
    (req.op = "put" /\ HasRow(prev, req.id) /\ ~req.dbFails) =>
        /\ Len(sent) = 1 /\ sent[1].status = 200 /\ Len(sent[1].rows) = 1
        /\ sent[1].rows[1].id = req.id
        /\ InList(Listed(variant, table), sent[1].rows[1])
        /\ RowsOf(table, req.id) = {sent[1].rows[1]}
        /\ \A c \in cols :
              req.body[c] # Undef => sent[1].rows[1].f[c] = req.body[c]

\* C4 as stated: the returned record carries every supplied field.
C4_Claim == UpdateAnswered(Cols(variant))

\* The columns an update writes.
C4_Written ==
    IF variant = "A" THEN {"nombre", "descripcion", "precio", "stock"}
    ELSE {"nombre", "costo_venta", "cantidad_disponible"}

\* C4 amended: the returned record carries the supplied values of the
\* columns the variant's UPDATE writes (A: nombre, descripcion, precio,
\* stock; B: nombre, costo_venta, cantidad_disponible), null for those of
\* them the body omits, and the stored values of every other column.
C4_Amended ==
    /\ UpdateAnswered(C4_Written)
    /\ (req.op = "put" /\ HasRow(prev, req.id) /\ ~req.dbFails) =>
          \A c \in Cols(variant) :
             /\ (c \in C4_Written /\ req.body[c] = Undef) =>
                   sent[1].rows[1].f[c] = Null
             /\ c \notin C4_Written =>
                   \E p \in RowsOf(prev, req.id) :
                      sent[1].rows[1].f[c] = p.f[c]

C4_Witness ==
    /\ variant = "B"
    /\ req.op = "put"
    /\ Answered(sent, 200)
    /\ req.body["material"] = "\"plata\""
    /\ sent[1].rows[1].f["material"] = "\"oro\""
    /\ sent[1].rows[1].f["nombre"] = "\"Collar\""

\* ------------------------------------------------------------------- C5
\* C5: once a delete of an id has succeeded, no list answered later carries
\* a row with that id, and no later update or delete of that id succeeds:
\* its datastore call completing, it is answered 404.
C5_Deleted ==
    [][ /\ (req'.op = "get" /\ Answered(sent', 200)) =>
              \A i \in 1..Len(sent'[1].rows) :
                 sent'[1].rows[i].id \notin deleted'
        /\ (req'.op \in {"put", "delete"} /\ req'.id \in deleted) =>
              /\ ~Succeeded(req'.op, sent')
              /\ ~req'.dbFails => sent' = <<ErrorBody(404)>>
        /\ (req'.op = "delete" /\ Succeeded("delete", sent')) =>
              /\ Len(sent') = 1
              /\ sent'[1].status = IF variant = "A" THEN 204 ELSE 200
              /\ variant = "B" => sent'[1].ident = req'.id
              /\ ~HasRow(table', req'.id)
      ]_vars

C5_Witness ==
    /\ req.op = "delete"
    /\ req.id \in deleted
    /\ ~HasRow(prev, req.id)
    /\ prev # {}
    /\ sent = <<ErrorBody(404)>>

\* ------------------------------------------------------------------- C6
\* C6: whichever of list, create, update and delete it is, a request whose
\* datastore call fails is answered 500 with an error body, once; the table
\* is as it was and the process is up; no request gets two responses.
C6_Failure ==
    /\ alive
    /\ req.op # "none" => Len(sent) = 1
    /\ (req.dbFails /\ calls = 1) =>
          /\ sent = <<ErrorBody(500)>>
          /\ table = prev

C6_Witness ==
    /\ req.op = "delete"
    /\ req.dbFails
    /\ HasRow(prev, req.id)
    /\ sent = <<ErrorBody(500)>>
    /\ alive

\* ------------------------------------------------------------------- C7
Ordered(v, rows) ==
    \A i, j \in 1..Len(rows) :
       i < j => IF v = "A" THEN rows[i].id < rows[j].id
                ELSE rows[i].id > rows[j].id

\* C7: a list whose datastore call completes is answered 200 with the rows
\* of the table, each once, by ascending id in variant A and by descending
\* id in variant B; on the empty table the array is empty.
C7_List ==
    (req.op = "get" /\ ~req.dbFails) =>
        /\ Len(sent) = 1 /\ sent[1].status = 200 /\ sent[1].kind = "rows"
        /\ {sent[1].rows[i] : i \in 1..Len(sent[1].rows)} = table
        /\ Len(sent[1].rows) = Cardinality(table)
        /\ Ordered(variant, sent[1].rows)
        /\ table = {} => sent[1].rows = <<>>
        /\ table = prev

C7_Witness ==
    /\ variant = "B"
    /\ req.op = "get"
    /\ Answered(sent, 200)
    /\ Len(sent[1].rows) = 2
    /\ sent[1].rows[1].id = 2

\* ------------------------------------------------------------------- C9
\* C9: an update or a delete leaves every row with another id as it was,
\* adds no row and changes no id; the update of variant B leaves
\* tipo_producto, proveedor_id and material of its row as they were even
\* when the body supplies them.
C9_Frame ==
    (req.op \in {"put", "delete"}) =>
        /\ \A r \in prev : r.id # req.id => r \in table
        /\ \A r \in table : r.id # req.id => r \in prev
        /\ {r.id : r \in table} \subseteq {r.id : r \in prev}
        /\ (variant = "B" /\ req.op = "put") =>
              \A r \in RowsOf(table, req.id) :
                 \E p \in RowsOf(prev, req.id) :
                    \A c \in {"tipo_producto", "proveedor_id", "material"} :
                       r.f[c] = p.f[c]

C9_Witness ==
    /\ variant = "B"
    /\ req.op = "put"
    /\ Answered(sent, 200)
    /\ Cardinality(prev) = 2
    /\ req.body["tipo_producto"] = "\"collar\""
    /\ \E r \in RowsOf(table, req.id) : r.f["tipo_producto"] = Null

\* ------------------------------------------------------------------ C10
\* C10: in variant B every row has a non-empty nombre and a non-null
\* costo_venta, whatever creates, updates and deletes came before.
C10_Claim ==
    variant = "B" =>
        \A r \in table :
           /\ r.f["nombre"] \notin {Null, "\"\""}
           /\ r.f["costo_venta"] # Null

\* ------------------------------------------------------------------- C8
\* The statements executed so far, replayed one request at a time in the
\* order the datastore executed them, from table t and sequence value nid
\* at position k: every request answered got the responses its handler
\* gives when it runs alone at that point, and the replay ends in the table.
RECURSIVE Replay(_, _, _)
Replay(k, t, nid) ==
    IF k > clock THEN t = table /\ nid = nextId
    ELSE LET s == CHOOSE x \in 1..MaxReq : flight[x].at = k
             f == flight[s]
             o == Handle(variant, f.op, t, nid, f.id, f.body, ~f.result.ok)
         IN  /\ f.st = "done" => f.sent = o.sent
             /\ Replay(k + 1, o.table, o.nextId)

\* C8: the responses of interleaved requests are those of the requests run
\* one at a time in the order of their datastore steps; of two deletes of
\* an id that matched a row when the first was executed, the first succeeds
\* and the second is answered 404; an update executed after the delete that
\* removed its row is never answered 200.
C8_Serial ==
    /\ Replay(1, Seed(variant).table, Seed(variant).nextId)
    /\ \A s \in 1..MaxReq :
          (flight[s].st = "done" /\ flight[s].at = 0) =>
             /\ Rejects(variant, flight[s].op, flight[s].body)
             /\ flight[s].sent = <<ErrorBody(400)>>
    /\ \A s \in 1..MaxReq : flight[s].st = "done" => Len(flight[s].sent) = 1
    /\ \A a, b \in 1..MaxReq :
          (/\ flight[a].op = "delete" /\ flight[b].op = "delete"
           /\ flight[a].id = flight[b].id
           /\ flight[a].st = "done" /\ flight[b].st = "done"
           /\ flight[a].result.ok /\ flight[b].result.ok
           /\ flight[a].found
           /\ flight[a].at < flight[b].at) =>
             /\ Succeeded("delete", flight[a].sent)
             /\ flight[b].sent = <<ErrorBody(404)>>
    /\ \A u, d \in 1..MaxReq :
          (/\ flight[u].op = "put" /\ flight[d].op = "delete"
           /\ flight[u].id = flight[d].id
           /\ flight[d].found /\ flight[d].result.ok
           /\ 0 < flight[d].at /\ flight[d].at < flight[u].at
           /\ flight[u].st = "done") =>
             ~Answered(flight[u].sent, 200)

\* Two deletes of row 1 in flight together: the one that arrived second was
\* executed first and succeeded, the other was answered 404.
C8_Witness ==
    /\ flight[1].op = "delete" /\ flight[2].op = "delete"
    /\ flight[1].id = 1 /\ flight[2].id = 1
    /\ flight[1].st = "done" /\ flight[2].st = "done"
    /\ flight[2].at < flight[1].at
    /\ Succeeded("delete", flight[2].sent)
    /\ flight[1].sent = <<ErrorBody(404)>>

====
